---- MODULE Spec2Model ----
(***************************************************************************)
(* Model of the "Today I Bookmarked" application (App component, seed      *)
(* data, URL classifier).                                                  *)
(*                                                                         *)
(* Strings are sequences of tokens (a token is an indivisible run of       *)
(* characters), so that trimming, URL parsing and classification are       *)
(* computed rather than looked up.  JSON values are tagged records.        *)
(***************************************************************************)
EXTENDS FiniteSets, Integers, Sequences, TLC

VARIABLES
    mounted,        \* App has been constructed and its mount effects have run
    storage,        \* localStorage['til-bookmarks']
    draftSlot,      \* localStorage['til-bookmarks-draft']
    userBookmarks,  \* useState<Bookmark[]>
    formFields,     \* useState<FormFields>
    isFormVisible,  \* useState(false)
    filters,        \* useState<Filters>
    status,         \* useState<{message, tone}>
    pendingImports, \* handleImport calls suspended at `await file.text()`
    download,       \* text of the last file handed to the browser by handleExport
    statusTimeout,  \* delay of the pending status dismissal timer, 0 if none
    uuidCount,      \* number of crypto.randomUUID() results consumed so far
    clock,          \* index into NowStrings of the current wall-clock instant
    isAutofilling,  \* useState(false)
    pendingFetches, \* handleAutofill calls suspended at `await fetch(...)`
    elem,           \* an array element handed to both normalisations
    viaLoad,        \* what loadUserBookmarks makes of [elem]
    viaImport,      \* what handleImport accepts from [elem]
    detected        \* what the detectUrlType calls made on elem returned

autofillVars == <<isAutofilling, pendingFetches>>

appVars == <<mounted, storage, draftSlot, userBookmarks, formFields,
             isFormVisible, filters, status, pendingImports, download,
             statusTimeout, uuidCount, clock, autofillVars>>

elemVars == <<elem, viaLoad, viaImport, detected>>

vars == <<appVars, elemVars>>

----------------------------------------------------------------------------
(* Bounds *)

MaxUser == 3       \* longest User collection explored
MaxUuid == 3       \* crypto.randomUUID() results available in one session
MaxPending == 1    \* import file reads in flight at once
MaxReads == 2      \* the same, where reads are explored side by side
MaxCalls == 2      \* detectUrlType calls made on one string

----------------------------------------------------------------------------
(* Strings *)

Whitespace == {" "}

RECURSIVE trimStart(_)
trimStart(s) ==
    IF s # <<>> /\ Head(s) \in Whitespace THEN trimStart(Tail(s)) ELSE s

RECURSIVE trimEnd(_)
trimEnd(s) ==
    IF s # <<>> /\ s[Len(s)] \in Whitespace
    THEN trimEnd(SubSeq(s, 1, Len(s) - 1))
    ELSE s

\* String.prototype.trim
trim(s) == trimEnd(trimStart(s))

\* String.prototype.startsWith on token sequences
startsWith(s, prefix) ==
    /\ Len(s) >= Len(prefix)
    /\ SubSeq(s, 1, Len(prefix)) = prefix

\* String.prototype.endsWith on token sequences
endsWith(s, suffix) ==
    /\ Len(s) >= Len(suffix)
    /\ SubSeq(s, Len(s) - Len(suffix) + 1, Len(s)) = suffix

RECURSIVE SeqFilter(_, _)
\* Array.prototype.filter with the predicate given as a set of kept values
SeqFilter(s, keep) ==
    IF s = <<>> THEN <<>>
    ELSE IF Head(s) \in keep
         THEN <<Head(s)>> \o SeqFilter(Tail(s), keep)
         ELSE SeqFilter(Tail(s), keep)

Range(s) == {s[i] : i \in DOMAIN s}

----------------------------------------------------------------------------
(* JSON values, as JSON.parse returns them *)

Undefined == [k |-> "undefined"]          \* property absent
Null == [k |-> "null"]
Num(n) == [k |-> "number", n |-> n]
Str(s) == [k |-> "string", s |-> s]
Arr(a) == [k |-> "array", a |-> a]
Obj(id, title, url, urlType, tags, note, savedAt) ==
    [k |-> "object", id |-> id, title |-> title, url |-> url,
     urlType |-> urlType, tags |-> tags, note |-> note, savedAt |-> savedAt]

\* an object with an own property toString that is not a function, as
\* JSON.parse returns for {"toString": 1}
Unprintable == [k |-> "unprintable"]

\* typeof v === 'string'
IsString(v) == v.k = "string"

\* typeof v === 'object' && v !== null
IsObjectLike(v) == v.k \in {"object", "array", "unprintable"}

\* Array.isArray(v)
IsArray(v) == v.k = "array"

\* property read v[f]; reading an unknown property of an array gives undefined
Get(v, f) == IF v.k = "object" THEN v[f] ELSE Undefined

\* `f in v`
HasKey(v, f) == Get(v, f) # Undefined

RECURSIVE JoinComma(_)
JoinComma(strs) ==
    IF strs = <<>> THEN <<>>
    ELSE IF Len(strs) = 1 THEN Head(strs)
         ELSE Head(strs) \o <<",">> \o JoinComma(Tail(strs))

RECURSIVE StringThrows(_)
\* String(v) throws a TypeError: no callable toString gives a primitive
StringThrows(v) ==
    CASE v.k = "unprintable" -> TRUE
      [] v.k = "array" -> \E i \in DOMAIN v.a : StringThrows(v.a[i])
      [] OTHER -> FALSE

RECURSIVE StringOf(_)
\* String(v), when it does not throw
StringOf(v) ==
    CASE v.k = "string" -> v.s
      [] v.k = "number" -> <<"5">>
      [] v.k = "null" -> <<"null">>
      [] v.k = "undefined" -> <<"undefined">>
      [] v.k = "array" ->
            JoinComma([i \in DOMAIN v.a |->
                         IF v.a[i].k \in {"null", "undefined"} THEN <<>>
                         ELSE StringOf(v.a[i])])
      [] OTHER -> <<"[object Object]">>

----------------------------------------------------------------------------
(* Dates *)

\* Date.parse on the date strings that occur, in minutes since
\* 2024-01-01T00:00Z; every other string is not a date (NaN).
DateTable ==
    [s \in {"2024-05-28T21:30:00.000Z", "2024-06-11T12:10:00.000Z",
            "2024-07-02T10:15:00.000Z", "2024-07-02T10:15:00Z",
            "2024-08-15T08:02:00.000Z", "2024-09-04T14:45:00.000Z",
            "2026-11-04T09:00:00.000Z", "2026-11-04T09:01:00.000Z"} |->
        CASE s = "2024-05-28T21:30:00.000Z" -> 148 * 1440 + 21 * 60 + 30
          [] s = "2024-06-11T12:10:00.000Z" -> 162 * 1440 + 12 * 60 + 10
          [] s = "2024-07-02T10:15:00.000Z" -> 183 * 1440 + 10 * 60 + 15
          [] s = "2024-07-02T10:15:00Z" -> 183 * 1440 + 10 * 60 + 15
          [] s = "2024-08-15T08:02:00.000Z" -> 227 * 1440 + 8 * 60 + 2
          [] s = "2024-09-04T14:45:00.000Z" -> 247 * 1440 + 14 * 60 + 45
          [] s = "2026-11-04T09:00:00.000Z" -> 1038 * 1440 + 9 * 60
          [] s = "2026-11-04T09:01:00.000Z" -> 1038 * 1440 + 9 * 60 + 1]

\* !Number.isNaN(Date.parse(s))
IsDate(s) == Len(s) = 1 /\ s[1] \in DOMAIN DateTable

\* new Date(s).getTime(), for s with IsDate(s)
getTime(s) == DateTable[s[1]]

\* new Date().toISOString() at successive instants of the session
NowStrings == << <<"2026-11-04T09:00:00.000Z">>, <<"2026-11-04T09:01:00.000Z">> >>

----------------------------------------------------------------------------
(* URLs *)

SchemeTokens == {"https://", "http://"}
PathTokens == {"/", "/document/", "/spreadsheets/", "/app/board/", "/d/abc",
               "/guide/features.html#path-aliases", "/min-max-clamp/",
               "/WAI/ARIA/apg/", "/pmndrs/zustand", "/dark-mode/"}

RECURSIVE HostEnd(_, _)
\* index of the last token of the authority of s (a scheme followed by tokens)
HostEnd(s, i) ==
    IF i > Len(s) \/ s[i] \in PathTokens THEN i - 1 ELSE HostEnd(s, i + 1)

\* new URL(s) does not throw.  The parser strips surrounding spaces, wants a
\* scheme, and for http(s) a non-empty host without forbidden code points.
IsURL(s) ==
    LET t == trim(s) IN
    /\ Len(t) >= 2
    /\ t[1] \in SchemeTokens
    /\ HostEnd(t, 2) >= 2
    /\ \A i \in 2..HostEnd(t, 2) : t[i] \notin Whitespace

\* new URL(s).hostname, for s with IsURL(s)
hostname(s) == LET t == trim(s) IN SubSeq(t, 2, HostEnd(t, 2))

\* new URL(s).pathname, for s with IsURL(s)
pathname(s) ==
    LET t == trim(s)
        p == SubSeq(t, HostEnd(t, 2) + 1, Len(t))
    IN  IF p = <<>> THEN <<"/">> ELSE p

----------------------------------------------------------------------------
(* URL classifier *)

UrlTypes == {"Google Doc", "Google Sheet", "Miro Board", "GitHub",
             "ServiceNow", "Red Hat Source", "Generic"}

\* rules that look at the hostname only
RuleMatches_hostOnly(i, s) ==
    CASE i \in {1, 2} -> hostname(s) = <<"docs.google.com">>
      [] i = 3 -> endsWith(hostname(s), <<"miro.com">>)
      [] i = 4 -> hostname(s) = <<"github.com">>
      [] i = 5 -> endsWith(hostname(s), <<".service-now.com">>)
      [] i = 6 -> hostname(s) = <<"source.redhat.com">>

\* rules[i].matches(url), for the parsed URL of s
RuleMatches(i, s) ==
    CASE i = 1 -> /\ hostname(s) = <<"docs.google.com">>
                  /\ startsWith(pathname(s), <<"/document/">>)
      [] i = 2 -> /\ hostname(s) = <<"docs.google.com">>
                  /\ startsWith(pathname(s), <<"/spreadsheets/">>)
      [] i = 3 -> /\ endsWith(hostname(s), <<"miro.com">>)
                  /\ startsWith(pathname(s), <<"/app/board/">>)
      [] i = 4 -> hostname(s) = <<"github.com">>
      [] i = 5 -> endsWith(hostname(s), <<".service-now.com">>)
      [] i = 6 -> hostname(s) = <<"source.redhat.com">>

rules == <<"Google Doc", "Google Sheet", "Miro Board", "GitHub",
           "ServiceNow", "Red Hat Source">>

detectUrlType(urlString) ==
    IF ~IsURL(urlString) THEN "Generic"
    ELSE LET found == {i \in DOMAIN rules : RuleMatches(i, urlString)} IN
         IF found = {} THEN "Generic"
         ELSE rules[CHOOSE i \in found : \A j \in found : i <= j]

----------------------------------------------------------------------------
(* Bookmarks *)

Bookmark(id, title, url, urlType, tags, note, savedAt) ==
    [id |-> id, title |-> title, url |-> url, urlType |-> urlType,
     tags |-> tags, note |-> note, savedAt |-> savedAt]

seedBookmarks == <<
    Bookmark(<<"til-vite-aliases">>,
             <<"Speed up your Vite projects with path aliases">>,
             <<"https://", "vite.dev", "/guide/features.html#path-aliases">>,
             Str(<<"Generic">>), << <<"vite">>, <<"frontend">>, <<"productivity">> >>,
             <<"Quick reference for setting up @ alias in Vite config.">>,
             <<"2024-07-02T10:15:00.000Z">>),
    Bookmark(<<"article-css-clamp">>,
             <<"Responsive typography with clamp()">>,
             <<"https://", "web.dev", "/min-max-clamp/">>,
             Str(<<"Generic">>), << <<"css">>, <<"design">> >>,
             <<"Explains how to use clamp() for type scales that adapt to viewport.">>,
             <<"2024-08-15T08:02:00.000Z">>),
    Bookmark(<<"doc-aria-patterns">>,
             <<"ARIA Authoring Practices Guide">>,
             <<"https://", "www.", "w3.org", "/WAI/ARIA/apg/">>,
             Str(<<"Generic">>), << <<"accessibility">>, <<"reference">> >>,
             <<"Great resource for common widget patterns; check combobox behavior.">>,
             <<"2024-05-28T21:30:00.000Z">>),
    Bookmark(<<"repo-zustand">>,
             <<"Zustand State Management">>,
             <<"https://", "github.com", "/pmndrs/zustand">>,
             Str(<<"GitHub">>), << <<"state">>, <<"react">> >>,
             <<"Simple global store; consider for future state sharing if app grows.">>,
             <<"2024-09-04T14:45:00.000Z">>),
    Bookmark(<<"blog-dark-mode-css">>,
             <<"Prefers-color-scheme: Dark Mode in CSS">>,
             <<"https://", "css-tricks.com", "/dark-mode/">>,
             Str(<<"Generic">>), << <<"css">>, <<"ui">> >>,
             <<"Covers toggles and system preference detection; useful for theme switch.">>,
             <<"2024-06-11T12:10:00.000Z">>) >>

\* crypto.randomUUID(): the n-th identifier generated in the session; it
\* differs from every earlier one and from every identifier in any file
Uuids == <<"uuid-1", "uuid-2", "uuid-3", "uuid-4", "uuid-5", "uuid-6",
           "uuid-7", "uuid-8">>
randomUUID(n) == <<Uuids[n]>>
GeneratedIds == {randomUUID(n) : n \in DOMAIN Uuids}

Ids(bookmarks) == {bookmarks[i].id : i \in DOMAIN bookmarks}

RECURSIVE dedupeFrom(_, _)
dedupeFrom(bookmarks, seen) ==
    IF bookmarks = <<>> THEN <<>>
    ELSE IF Head(bookmarks).id \in seen
         THEN dedupeFrom(Tail(bookmarks), seen)
         ELSE <<Head(bookmarks)>>
                \o dedupeFrom(Tail(bookmarks), seen \cup {Head(bookmarks).id})

\* dedupeById without the `seen` test
dedupeById_keepAll(bookmarks) == bookmarks

dedupeById(bookmarks) == dedupeFrom(bookmarks, {})

\* the comparator (a, b) => getTime(b.savedAt) - getTime(a.savedAt)
compareSavedAt(a, b) == getTime(b.savedAt) - getTime(a.savedAt)

\* position at which the stable sort places x in the sorted sequence s:
\* behind every element that does not compare after it
RECURSIVE InsertAt(_, _, _)
InsertAt(s, x, i) ==
    IF i > Len(s) \/ compareSavedAt(s[i], x) > 0 THEN i
    ELSE InsertAt(s, x, i + 1)

RECURSIVE sortFrom(_, _)
sortFrom(sorted, rest) ==
    IF rest = <<>> THEN sorted
    ELSE LET x == Head(rest)
             i == InsertAt(sorted, x, 1)
         IN  sortFrom(SubSeq(sorted, 1, i - 1) \o <<x>>
                        \o SubSeq(sorted, i, Len(sorted)),
                      Tail(rest))

\* a sort that leaves records with equal savedAt in reverse input order
sortBySavedAt_reverseTies(bookmarks) ==
    sortFrom(<<>>, [i \in 1..Len(bookmarks) |->
                      bookmarks[Len(bookmarks) + 1 - i]])

\* Array.prototype.sort (stable) with compareSavedAt
sortBySavedAt(bookmarks) == sortFrom(<<>>, bookmarks)

\* combinedBookmarks with the User records ahead of the Seed records and
\* without the seedIds filter
combinedOf_userFirst(user) == sortBySavedAt(dedupeById(user \o seedBookmarks))

\* the useMemo result for a given User collection
combinedOf(user) ==
    LET seedIds == Ids(seedBookmarks)
        filteredUser == SeqFilter(user, {b \in Range(user) : b.id \notin seedIds})
        merged == dedupeById(seedBookmarks \o filteredUser)
    IN  sortBySavedAt(merged)

combinedBookmarks == combinedOf(userBookmarks)

\* a callback that sorts the module array seedBookmarks in place as well
combinedArrays_sortsSeed(user) ==
    [seedBookmarks |-> sortBySavedAt(seedBookmarks), merged |-> combinedOf(user)]

\* the two arrays after the useMemo callback has run: seedBookmarks is only
\* read (map, spread); sort works in place on merged, the array dedupeById
\* allocated
combinedArrays(user) ==
    [seedBookmarks |-> seedBookmarks, merged |-> combinedOf(user)]

----------------------------------------------------------------------------
(* Filter and search *)

RECURSIVE Flat(_)
\* the characters of a string that is written as a sequence of tokens
Flat(s) == IF s = <<>> THEN "" ELSE Head(s) \o Flat(Tail(s))

\* the lower-case form of one character
lowerChar(c) ==
    LET UpperCase == "ABCDEFGHIJKLMNOPQRSTUVWXYZ"
        LowerCase == "abcdefghijklmnopqrstuvwxyz"
    IN  IF \E i \in 1..Len(UpperCase) : SubSeq(UpperCase, i, i) = c
        THEN LET i == CHOOSE j \in 1..Len(UpperCase) :
                        SubSeq(UpperCase, j, j) = c
             IN  SubSeq(LowerCase, i, i)
        ELSE c

RECURSIVE toLowerCase(_)
\* String.prototype.toLowerCase
toLowerCase(text) ==
    IF Len(text) = 0 THEN ""
    ELSE IF Len(text) = 1 THEN lowerChar(text)
    ELSE LET half == Len(text) \div 2 IN
         toLowerCase(SubSeq(text, 1, half))
           \o toLowerCase(SubSeq(text, half + 1, Len(text)))

\* String.prototype.includes
includes(text, search) ==
    \E i \in 1..(Len(text) - Len(search) + 1) :
        SubSeq(text, i, i + Len(search) - 1) = search

RECURSIVE join(_, _)
\* Array.prototype.join
join(texts, separator) ==
    IF texts = <<>> THEN ""
    ELSE IF Len(texts) = 1 THEN Head(texts)
         ELSE Head(texts) \o separator \o join(Tail(texts), separator)

\* a getHostname that leaves the hostname as the URL parser gives it
getHostname_keepWww(url) ==
    IF IsURL(url) THEN Flat(hostname(url)) ELSE Flat(url)

\* new URL(url).hostname.replace(/^www\./, ''), and url itself when new URL
\* throws
getHostname(url) ==
    IF IsURL(url)
    THEN LET h == Flat(hostname(url)) IN
         IF Len(h) >= 4 /\ SubSeq(h, 1, 4) = "www." THEN SubSeq(h, 5, Len(h))
         ELSE h
    ELSE Flat(url)

\* [title, note, tags.join(' '), getHostname(url)].join(' ').toLowerCase()
haystack(bookmark) ==
    toLowerCase(join(<<Flat(bookmark.title), Flat(bookmark.note),
                       join([i \in DOMAIN bookmark.tags |->
                                Flat(bookmark.tags[i])], " "),
                       getHostname(bookmark.url)>>, " "))

\* the callback given to combinedBookmarks.filter
filterCallback(bookmark, search, tag) ==
    LET matchesTag == \/ tag = ""
                      \/ \E i \in DOMAIN bookmark.tags :
                            Flat(bookmark.tags[i]) = tag
    IN  IF search = "" THEN matchesTag
        ELSE matchesTag /\ includes(haystack(bookmark), search)

\* the useMemo result for given bookmarks and filters
filteredOf(bookmarks, f) ==
    LET search == toLowerCase(Flat(trim(f.search)))
        tag == Flat(f.tag)
    IN  SeqFilter(bookmarks,
                  {b \in Range(bookmarks) : filterCallback(b, search, tag)})

filteredBookmarks == filteredOf(combinedBookmarks, filters)

----------------------------------------------------------------------------
(* Texts: localStorage values and file contents *)

NoItem == [k |-> "missing"]       \* getItem returns null / no such key
EmptyText == [k |-> "empty"]      \* the empty string
Garbage == [k |-> "garbage"]      \* text that JSON.parse rejects
Json(v) == [k |-> "json", j |-> v] \* text that JSON.parse turns into v

\* `!raw`
IsFalsyText(raw) == raw.k \in {"missing", "empty"}

\* JSON.parse(text) throws
ParseThrows(text) == text.k # "json"

\* JSON.parse(text), when it does not throw
JSONparse(text) == text.j

\* a serialisation that leaves the id out
BookmarkToJson_noId(b) ==
    Obj(Undefined, Str(b.title), Str(b.url), b.urlType,
        Arr([i \in DOMAIN b.tags |-> Str(b.tags[i])]), Str(b.note),
        Str(b.savedAt))

\* the JSON value of a Bookmark object
BookmarkToJson(b) ==
    Obj(Str(b.id), Str(b.title), Str(b.url), b.urlType,
        Arr([i \in DOMAIN b.tags |-> Str(b.tags[i])]), Str(b.note),
        Str(b.savedAt))

\* JSON.stringify(bookmarks), with or without indentation
JSONstringify(bookmarks) ==
    Json(Arr([i \in DOMAIN bookmarks |-> BookmarkToJson(bookmarks[i])]))

----------------------------------------------------------------------------
(* Normalisation of untrusted elements *)

\* tags.filter(tag => typeof tag === 'string' && tag.trim().length > 0)
RECURSIVE filterTags(_)
filterTags(a) ==
    IF a = <<>> THEN <<>>
    ELSE IF IsString(Head(a)) /\ Len(trim(Head(a).s)) > 0
         THEN <<Head(a).s>> \o filterTags(Tail(a))
         ELSE filterTags(Tail(a))

normTags(item) ==
    IF IsArray(Get(item, "tags")) THEN filterTags(Get(item, "tags").a) ELSE <<>>

\* savedAt without the Date.parse test
normSavedAt_unparsed(item, now) ==
    IF IsString(Get(item, "savedAt")) THEN Get(item, "savedAt").s ELSE now

normSavedAt(item, now) ==
    IF IsString(Get(item, "savedAt")) /\ IsDate(Get(item, "savedAt").s)
    THEN Get(item, "savedAt").s
    ELSE now

\* the first .filter of loadUserBookmarks
loadShapeOk(item) ==
    IsObjectLike(item) /\ HasKey(item, "title") /\ HasKey(item, "url")

\* the urlType expression of loadUserBookmarks: item.urlType ?? detectUrlType(..)
loadUrlType(item) ==
    IF Get(item, "urlType").k \in {"undefined", "null"}
    THEN Str(<<detectUrlType(trim(StringOf(Get(item, "url"))))>>)
    ELSE Get(item, "urlType")

\* the .map callback without the trim of the title
loadMapItem_untrimmed(item, uuid, now) ==
    Bookmark(IF IsString(Get(item, "id")) THEN Get(item, "id").s ELSE uuid,
             IF trim(StringOf(Get(item, "title"))) # <<>>
             THEN StringOf(Get(item, "title"))
             ELSE <<"Untitled">>,
             trim(StringOf(Get(item, "url"))),
             loadUrlType(item),
             normTags(item),
             IF IsString(Get(item, "note")) THEN Get(item, "note").s ELSE <<>>,
             normSavedAt(item, now))

\* the .map callback of loadUserBookmarks; uuid is the result randomUUID()
\* would give if it is called
loadMapItem(item, uuid, now) ==
    Bookmark(IF IsString(Get(item, "id")) THEN Get(item, "id").s ELSE uuid,
             IF trim(StringOf(Get(item, "title"))) # <<>>
             THEN trim(StringOf(Get(item, "title")))
             ELSE <<"Untitled">>,
             trim(StringOf(Get(item, "url"))),
             loadUrlType(item),
             normTags(item),
             IF IsString(Get(item, "note")) THEN Get(item, "note").s ELSE <<>>,
             normSavedAt(item, now))

\* whether loadUserBookmarks keeps the array element
loadKeeps(item) ==
    loadShapeOk(item) /\ IsURL(trim(StringOf(Get(item, "url"))))

\* the .map callback throws: String(item.title) or String(item.url) does
loadMapThrows(item) ==
    StringThrows(Get(item, "title")) \/ StringThrows(Get(item, "url"))

RECURSIVE loadItems(_, _, _)
\* filter, map, filter over the parsed array; n uuids were consumed before.
\* Result: the bookmarks, the number of uuids consumed after, and whether
\* the .map callback threw on some element (then there are no bookmarks).
loadItems(items, n, now) ==
    IF items = <<>> THEN [out |-> <<>>, n |-> n, threw |-> FALSE]
    ELSE LET item == Head(items) IN
         IF ~loadShapeOk(item) THEN loadItems(Tail(items), n, now)
         ELSE LET fresh == ~IsString(Get(item, "id"))
                  n1 == IF fresh THEN n + 1 ELSE n
                  b == loadMapItem(item, randomUUID(n1), now)
                  rest == loadItems(Tail(items), n1, now)
              IN  IF loadMapThrows(item)
                  THEN [out |-> <<>>, n |-> n1, threw |-> TRUE]
                  ELSE IF rest.threw THEN rest
                  ELSE IF IsURL(b.url)
                  THEN [out |-> <<b>> \o rest.out, n |-> rest.n,
                        threw |-> FALSE]
                  ELSE rest

\* an exception of the try block ends in the catch block, which returns []
loadUserBookmarks(raw, n, now) ==
    IF IsFalsyText(raw) THEN [out |-> <<>>, n |-> n, threw |-> FALSE]
    ELSE IF ParseThrows(raw) THEN [out |-> <<>>, n |-> n, threw |-> TRUE]
    ELSE IF ~IsArray(JSONparse(raw)) THEN [out |-> <<>>, n |-> n, threw |-> FALSE]
    ELSE loadItems(JSONparse(raw).a, n, now)

\* the checks of the forEach callback of handleImport that make it return
\* without pushing
importKeeps(entry) ==
    /\ IsObjectLike(entry)
    /\ IsString(Get(entry, "title")) /\ trim(Get(entry, "title").s) # <<>>
    /\ IsString(Get(entry, "url")) /\ trim(Get(entry, "url").s) # <<>>
    /\ IsURL(trim(Get(entry, "url").s))

\* the urlType expression of the load path, used by the import path
importUrlType_keep(entry) == loadUrlType(entry)

\* the urlType of the pushed bookmark
importUrlType(entry) == Str(<<detectUrlType(trim(Get(entry, "url").s))>>)

\* the object pushed on `imported` for a kept entry
importMapEntry(entry, uuid, now) ==
    Bookmark(IF IsString(Get(entry, "id")) THEN Get(entry, "id").s ELSE uuid,
             trim(Get(entry, "title").s),
             trim(Get(entry, "url").s),
             importUrlType(entry),
             normTags(entry),
             IF IsString(Get(entry, "note")) THEN trim(Get(entry, "note").s)
             ELSE <<>>,
             normSavedAt(entry, now))

RECURSIVE importEntries(_, _, _)
\* a loop that stops at the first entry it does not keep
importEntries_abortOnInvalid(entries, n, now) ==
    IF entries = <<>> THEN [out |-> <<>>, n |-> n]
    ELSE LET entry == Head(entries) IN
         IF ~importKeeps(entry) THEN [out |-> <<>>, n |-> n]
         ELSE LET fresh == ~IsString(Get(entry, "id"))
                  n1 == IF fresh THEN n + 1 ELSE n
                  b == importMapEntry(entry, randomUUID(n1), now)
                  rest == importEntries(Tail(entries), n1, now)
              IN  [out |-> <<b>> \o rest.out, n |-> rest.n]

\* parsed.forEach(...): the `imported` array and the uuids consumed
importEntries(entries, n, now) ==
    IF entries = <<>> THEN [out |-> <<>>, n |-> n]
    ELSE LET entry == Head(entries) IN
         IF ~importKeeps(entry) THEN importEntries(Tail(entries), n, now)
         ELSE LET fresh == ~IsString(Get(entry, "id"))
                  n1 == IF fresh THEN n + 1 ELSE n
                  b == importMapEntry(entry, randomUUID(n1), now)
                  rest == importEntries(Tail(entries), n1, now)
              IN  [out |-> <<b>> \o rest.out, n |-> rest.n]

\* the updater with [...previous, ...imported]
importMerge_previousFirst(imported, previous) ==
    sortBySavedAt(dedupeById(previous \o imported))

\* an updater that ignores the previous collection
importMerge_importedOnly(imported, previous) ==
    sortBySavedAt(dedupeById(imported))

\* a merge into a collection captured earlier, which lacks the records that
\* were given a generated id in the meantime
importMerge_staleClosure(imported, previous) ==
    sortBySavedAt(dedupeById(
        imported \o SeqFilter(previous, {b \in Range(previous) :
                                           b.id \notin GeneratedIds})))

\* the updater passed to setUserBookmarks by handleImport
importMerge(imported, previous) == sortBySavedAt(dedupeById(imported \o previous))

----------------------------------------------------------------------------
(* Form fields, drafts, status *)

\* an object with the four form fields; a field that is absent is Undefined
Fields(title, url, tags, note) ==
    [k |-> "object", title |-> title, url |-> url, tags |-> tags, note |-> note]

defaultFormFields == Fields(Str(<<>>), Str(<<>>), Str(<<>>), Str(<<>>))

FieldNames == {"title", "url", "tags", "note"}

\* { ...previous }: the own properties of previous, none for a non-object
spread(previous) ==
    IF previous.k = "object" THEN previous
    ELSE Fields(Undefined, Undefined, Undefined, Undefined)

RECURSIVE split(_, _)
\* String.prototype.split(','), cur being the piece read so far
split(s, cur) ==
    IF s = <<>> THEN <<cur>>
    ELSE IF Head(s) = "," THEN <<cur>> \o split(Tail(s), <<>>)
         ELSE split(Tail(s), Append(cur, Head(s)))

RECURSIVE trimAll(_)
\* .map(tag => tag.trim()).filter(Boolean)
trimAll(pieces) ==
    IF pieces = <<>> THEN <<>>
    ELSE IF trim(Head(pieces)) = <<>> THEN trimAll(Tail(pieces))
         ELSE <<trim(Head(pieces))>> \o trimAll(Tail(pieces))

Digits == <<"0", "1", "2", "3", "4", "5", "6", "7", "8", "9">>

idleStatus == [message |-> <<>>, tone |-> "idle"]

\* setStatusMessage called without its tone argument (the default 'idle')
setStatusMessage_noTone(message, tone) ==
    /\ status' = [message |-> message, tone |-> "idle"]
    /\ statusTimeout' = 0

\* a setStatusMessage that leaves a pending timer alone when it starts none
setStatusMessage_keepsTimer(message, tone) ==
    /\ status' = [message |-> message, tone |-> tone]
    /\ statusTimeout' = IF tone # "idle" /\ message # <<>>
                        THEN (IF tone = "error" THEN 4000 ELSE 2500)
                        ELSE statusTimeout

\* setStatusMessage(message, tone): the timer of the previous message is
\* cleared, and a new one is started for a non-empty success or error message
setStatusMessage(message, tone) ==
    /\ status' = [message |-> message, tone |-> tone]
    /\ statusTimeout' = IF tone # "idle" /\ message # <<>>
                        THEN (IF tone = "error" THEN 4000 ELSE 2500)
                        ELSE 0

now == NowStrings[clock]

\* an effect that serialises the collection of the previous render
persistEffect_stale == storage' = JSONstringify(userBookmarks)

\* the effect on [userBookmarks], run after a render that changed it
persistEffect == storage' = JSONstringify(userBookmarks')

----------------------------------------------------------------------------
(* Operations *)

\* First render of App and its mount effects: the lazy initial state
\* loadUserBookmarks(), the persist effect and the draft restore effect.
Mount ==
    /\ UNCHANGED <<elemVars, autofillVars>>
    /\ ~mounted
    /\ LET loaded == loadUserBookmarks(storage, uuidCount, now) IN
       /\ loaded.n <= MaxUuid
       /\ Len(loaded.out) <= MaxUser
       /\ userBookmarks' = loaded.out
       /\ uuidCount' = loaded.n
       /\ persistEffect
    /\ mounted' = TRUE
    /\ IF IsFalsyText(draftSlot) \/ ParseThrows(draftSlot)
          \/ JSONparse(draftSlot).k = "null"
       THEN UNCHANGED <<formFields, status, statusTimeout>>
       ELSE LET parsed == JSONparse(draftSlot)
                pick(f) == IF IsString(Get(parsed, f)) THEN Get(parsed, f)
                           ELSE formFields[f]
            IN  /\ formFields' = Fields(pick("title"), pick("url"),
                                        pick("tags"), pick("note"))
                /\ setStatusMessage(<<"Draft restored from cache.">>, "success")
    /\ UNCHANGED <<draftSlot, isFormVisible, filters, pendingImports, download,
                   clock>>

handleFieldChange(field, value) ==
    /\ UNCHANGED <<elemVars, autofillVars>>
    /\ mounted
    /\ formFields' = [spread(formFields) EXCEPT ![field] = Str(value)]
    /\ UNCHANGED <<mounted, storage, draftSlot, userBookmarks, isFormVisible,
                   filters, status, pendingImports, download, statusTimeout,
                   uuidCount, clock>>

\* a bookmark whose id is the first uuid of the session, drawn once
newBookmark_sameId(title, url, uuid) ==
    Bookmark(randomUUID(1), title, url, Str(<<detectUrlType(url)>>),
             trimAll(split(formFields.tags.s, <<>>)),
             trim(formFields.note.s), now)

\* the new bookmark handleSubmit builds from trimmed title and url
newBookmark(title, url, uuid) ==
    Bookmark(uuid, title, url, Str(<<detectUrlType(url)>>),
             trimAll(split(formFields.tags.s, <<>>)),
             trim(formFields.note.s), now)

handleSubmit ==
    /\ UNCHANGED <<elemVars, autofillVars>>
    /\ mounted
    /\ \A f \in FieldNames : IsString(Get(formFields, f))
    /\ LET title == trim(formFields.title.s)
           url0 == trim(formFields.url.s)
           url == IF url0 # <<>> /\ Head(url0) \in SchemeTokens THEN url0
                  ELSE <<"https://">> \o url0
       IN  IF title = <<>>
           THEN /\ setStatusMessage(<<"Please provide a title.">>, "error")
                /\ UNCHANGED <<storage, draftSlot, userBookmarks, formFields,
                               isFormVisible, uuidCount>>
           ELSE IF url0 = <<>>
           THEN /\ setStatusMessage(<<"Please provide a URL.">>, "error")
                /\ UNCHANGED <<storage, draftSlot, userBookmarks, formFields,
                               isFormVisible, uuidCount>>
           ELSE IF ~IsURL(url)
           THEN /\ setStatusMessage(
                     <<"That URL looks invalid. Double-check and try again.">>,
                     "error")
                /\ UNCHANGED <<storage, draftSlot, userBookmarks, formFields,
                               isFormVisible, uuidCount>>
           ELSE /\ uuidCount < MaxUuid
                /\ Len(userBookmarks) < MaxUser
                /\ uuidCount' = uuidCount + 1
                /\ userBookmarks' =
                     <<newBookmark(title, url, randomUUID(uuidCount + 1))>>
                       \o userBookmarks
                /\ draftSlot' = NoItem
                /\ formFields' = defaultFormFields
                \* setStatusMessage('Bookmark saved!', 'success') and then
                \* toggleForm(false), whose updater calls setStatusMessage('')
                /\ isFormVisible' = FALSE
                /\ setStatusMessage(<<>>, "idle")
                /\ persistEffect
    /\ UNCHANGED <<mounted, filters, pendingImports, download, clock>>

\* handleImport up to `await file.text()`, explored while fewer than `limit`
\* reads are pending; the handler itself reads no flag and no state
ImportStartWithin(file, limit) ==
    /\ UNCHANGED <<elemVars, autofillVars>>
    /\ mounted
    /\ Len(pendingImports) < limit
    /\ pendingImports' = Append(pendingImports, file)
    /\ UNCHANGED <<mounted, storage, draftSlot, userBookmarks, formFields,
                   isFormVisible, filters, status, download, statusTimeout,
                   uuidCount, clock>>

ImportStart(file) == ImportStartWithin(file, MaxPending)

\* handleImport from the resolution of file.text() on
ImportComplete(i) ==
    /\ UNCHANGED <<elemVars, autofillVars>>
    /\ mounted
    /\ i \in DOMAIN pendingImports
    /\ pendingImports' = SubSeq(pendingImports, 1, i - 1)
                           \o SubSeq(pendingImports, i + 1, Len(pendingImports))
    /\ LET text == pendingImports[i] IN
       IF ParseThrows(text)
       THEN /\ setStatusMessage(<<"Import failed. Ensure the JSON is valid.">>,
                                "error")
            /\ UNCHANGED <<storage, userBookmarks, uuidCount>>
       ELSE IF ~IsArray(JSONparse(text))
       THEN /\ setStatusMessage(
                 <<"Import failed: expected an array of bookmarks.">>, "error")
            /\ UNCHANGED <<storage, userBookmarks, uuidCount>>
       ELSE LET imported == importEntries(JSONparse(text).a, uuidCount, now) IN
            IF imported.out = <<>>
            THEN /\ setStatusMessage(
                      <<"Import completed, but no valid bookmarks were found.">>,
                      "error")
                 /\ UNCHANGED <<storage, userBookmarks, uuidCount>>
            ELSE /\ imported.n <= MaxUuid
                 /\ Len(importMerge(imported.out, userBookmarks)) <= MaxUser
                 /\ uuidCount' = imported.n
                 /\ userBookmarks' = importMerge(imported.out, userBookmarks)
                 /\ setStatusMessage(
                      <<"Imported ", Digits[Len(imported.out) + 1],
                        " bookmark(s).">>, "success")
                 /\ persistEffect
    /\ UNCHANGED <<mounted, draftSlot, formFields, isFormVisible, filters,
                   download, clock>>

handleExport ==
    /\ UNCHANGED <<elemVars, autofillVars>>
    /\ mounted
    /\ IF Len(userBookmarks) = 0
       THEN /\ setStatusMessage(<<"No personal bookmarks to export yet.">>,
                                "error")
            /\ UNCHANGED download
       ELSE /\ download' = JSONstringify(userBookmarks)
            /\ setStatusMessage(<<"Export ready! Check your downloads.">>,
                                "success")
    /\ UNCHANGED <<mounted, storage, draftSlot, userBookmarks, formFields,
                   isFormVisible, filters, pendingImports, uuidCount, clock>>

\* the wall clock reaches the next instant
Tick ==
    /\ UNCHANGED <<elemVars, autofillVars>>
    /\ clock < Len(NowStrings)
    /\ clock' = clock + 1
    /\ UNCHANGED <<mounted, storage, draftSlot, userBookmarks, formFields,
                   isFormVisible, filters, status, pendingImports, download,
                   statusTimeout, uuidCount>>

\* toggleForm(nextVisible); with no argument the visibility is flipped
toggleForm(next) ==
    /\ isFormVisible' = next
    /\ IF ~next
       THEN /\ formFields' = defaultFormFields
            /\ setStatusMessage(<<>>, "idle")
       ELSE UNCHANGED <<formFields, status, statusTimeout>>

\* the "Add bookmark" / "Close form" button
ToggleFormClick ==
    /\ UNCHANGED <<elemVars, autofillVars>>
    /\ mounted
    /\ toggleForm(~isFormVisible)
    /\ UNCHANGED <<mounted, storage, draftSlot, userBookmarks, filters,
                   pendingImports, download, uuidCount, clock>>

\* the Cancel button
CancelClick ==
    /\ UNCHANGED <<elemVars, autofillVars>>
    /\ mounted
    /\ toggleForm(FALSE)
    /\ UNCHANGED <<mounted, storage, draftSlot, userBookmarks, filters,
                   pendingImports, download, uuidCount, clock>>

\* a save that writes only when no draft is stored yet
handleSaveDraft_keepExisting ==
    /\ UNCHANGED <<elemVars, autofillVars>>
    /\ mounted
    /\ draftSlot' = IF draftSlot = NoItem THEN Json(formFields) ELSE draftSlot
    /\ setStatusMessage(<<"Draft saved locally.">>, "success")
    /\ UNCHANGED <<mounted, storage, userBookmarks, formFields, isFormVisible,
                   filters, pendingImports, download, uuidCount, clock>>

\* JSON.stringify(formFields): properties that are undefined are left out
handleSaveDraft ==
    /\ UNCHANGED <<elemVars, autofillVars>>
    /\ mounted
    /\ draftSlot' = Json(formFields)
    /\ setStatusMessage(<<"Draft saved locally.">>, "success")
    /\ UNCHANGED <<mounted, storage, userBookmarks, formFields, isFormVisible,
                   filters, pendingImports, download, uuidCount, clock>>

\* a restore whose catch block empties the form
handleRestoreDraft_resetOnCatch ==
    /\ UNCHANGED <<elemVars, autofillVars>>
    /\ mounted
    /\ IF IsFalsyText(draftSlot)
       THEN /\ setStatusMessage(<<"No draft saved yet.">>, "error")
            /\ UNCHANGED formFields
       ELSE IF ParseThrows(draftSlot)
       THEN /\ setStatusMessage(<<"Draft was corrupted; please save again.">>,
                                "error")
            /\ formFields' = defaultFormFields
       ELSE /\ formFields' = JSONparse(draftSlot)
            /\ setStatusMessage(<<"Draft restored.">>, "success")
    /\ UNCHANGED <<mounted, storage, draftSlot, userBookmarks, isFormVisible,
                   filters, pendingImports, download, uuidCount, clock>>

handleRestoreDraft ==
    /\ UNCHANGED <<elemVars, autofillVars>>
    /\ mounted
    /\ IF IsFalsyText(draftSlot)
       THEN /\ setStatusMessage(<<"No draft saved yet.">>, "error")
            /\ UNCHANGED formFields
       ELSE IF ParseThrows(draftSlot)
       THEN /\ setStatusMessage(<<"Draft was corrupted; please save again.">>,
                                "error")
            /\ UNCHANGED formFields
       ELSE /\ formFields' = JSONparse(draftSlot)
            /\ setStatusMessage(<<"Draft restored.">>, "success")
    /\ UNCHANGED <<mounted, storage, draftSlot, userBookmarks, isFormVisible,
                   filters, pendingImports, download, uuidCount, clock>>

handleSearchChange(value) ==
    /\ UNCHANGED <<elemVars, autofillVars>>
    /\ mounted
    /\ filters' = [filters EXCEPT !.search = value]
    /\ UNCHANGED <<mounted, storage, draftSlot, userBookmarks, formFields,
                   isFormVisible, status, pendingImports, download,
                   statusTimeout, uuidCount, clock>>

handleTagChange(value) ==
    /\ UNCHANGED <<elemVars, autofillVars>>
    /\ mounted
    /\ filters' = [filters EXCEPT !.tag = value]
    /\ UNCHANGED <<mounted, storage, draftSlot, userBookmarks, formFields,
                   isFormVisible, status, pendingImports, download,
                   statusTimeout, uuidCount, clock>>

handleClearFilters ==
    /\ UNCHANGED <<elemVars, autofillVars>>
    /\ mounted
    /\ filters' = [search |-> <<>>, tag |-> <<>>]
    /\ UNCHANGED <<mounted, storage, draftSlot, userBookmarks, formFields,
                   isFormVisible, status, pendingImports, download,
                   statusTimeout, uuidCount, clock>>

\* the window keydown listener, for the Escape key
handleKeyDown ==
    /\ UNCHANGED <<elemVars, autofillVars>>
    /\ mounted
    /\ IF isFormVisible
       THEN /\ toggleForm(FALSE)
            /\ UNCHANGED filters
       ELSE /\ filters' = [filters EXCEPT !.search = <<>>]
            /\ UNCHANGED <<formFields, isFormVisible, status, statusTimeout>>
    /\ UNCHANGED <<mounted, storage, draftSlot, userBookmarks, pendingImports,
                   download, uuidCount, clock>>

\* what the summarisation script may answer: a summary with tags, an answer
\* without either, an answer that reports an error
FetchResponses ==
    {[ok |-> TRUE, summary |-> Str(<<"S">>), tags |-> Str(<<"css">>),
      error |-> Undefined],
     [ok |-> TRUE, summary |-> Undefined, tags |-> Undefined,
      error |-> Undefined],
     [ok |-> FALSE, summary |-> Undefined, tags |-> Undefined,
      error |-> Str(<<"no content">>)]}

\* `v || fallback`
OrElse(v, fallback) ==
    IF v.k \in {"undefined", "null"} \/ (IsString(v) /\ v.s = <<>>)
    THEN fallback
    ELSE v

\* handleAutofill up to `await fetch(fetchUrl)`; the Auto-fill button is
\* disabled while isAutofilling
handleAutofill ==
    /\ UNCHANGED elemVars
    /\ mounted
    /\ ~isAutofilling
    /\ IsString(Get(formFields, "url"))
    /\ IF trim(formFields.url.s) = <<>>
       THEN /\ setStatusMessage(<<"Please provide a URL to auto-fill from.">>,
                                "error")
            /\ UNCHANGED autofillVars
       ELSE /\ isAutofilling' = TRUE
            /\ setStatusMessage(<<"Fetching details...">>, "idle")
            /\ pendingFetches' = Append(pendingFetches, trim(formFields.url.s))
    /\ UNCHANGED <<mounted, storage, draftSlot, userBookmarks, formFields,
                   isFormVisible, filters, pendingImports, download, uuidCount,
                   clock>>

\* handleAutofill from the resolution of fetch and response.json() on
AutofillComplete(i, data) ==
    /\ UNCHANGED elemVars
    /\ i \in DOMAIN pendingFetches
    /\ pendingFetches' = SubSeq(pendingFetches, 1, i - 1)
                           \o SubSeq(pendingFetches, i + 1, Len(pendingFetches))
    /\ isAutofilling' = FALSE
    /\ IF ~data.ok \/ OrElse(data.error, Null) # Null
       THEN /\ setStatusMessage(
                 <<"Auto-fill failed: ">>
                   \o StringOf(OrElse(data.error,
                                      Str(<<"The script returned an error.">>))),
                 "error")
            /\ UNCHANGED formFields
       ELSE /\ formFields' =
                 [spread(formFields) EXCEPT
                    !.title = OrElse(data.summary, spread(formFields).title),
                    !.tags = OrElse(data.tags, spread(formFields).tags),
                    !.note = Str(<<"\"">> \o StringOf(data.summary) \o <<"\"">>)]
            /\ setStatusMessage(<<"Content auto-filled successfully!">>,
                                "success")
    /\ UNCHANGED <<mounted, storage, draftSlot, userBookmarks, isFormVisible,
                   filters, pendingImports, download, uuidCount, clock>>

\* the callback given to window.setTimeout by setStatusMessage
StatusTimeoutFires ==
    /\ UNCHANGED <<elemVars, autofillVars>>
    /\ statusTimeout # 0
    /\ status' = idleStatus
    /\ statusTimeout' = 0
    /\ UNCHANGED <<mounted, storage, draftSlot, userBookmarks, formFields,
                   isFormVisible, filters, pendingImports, download, uuidCount,
                   clock>>

----------------------------------------------------------------------------
(* Inputs *)

UrlGitHub == <<"https://", "github.com", "/">>
UrlDoc == <<"https://", "docs.google.com", "/document/", "/d/abc">>
UrlBoard == <<" ", "https://", "sub.", "miro.com", "/app/board/", " ">>
UrlBad == <<"not", " ", "a", " ", "url">>
DateTie == Str(<<"2024-07-02T10:15:00.000Z">>)     \* the instant of a seed
DateTie2 == Str(<<"2024-07-02T10:15:00Z">>)        \* the same instant, other text
DateBad == Str(<<"yesterday">>)

\* a complete record that uses every normalisation of tags and note
ElemA == Obj(Str(<<"a">>), Str(<<"T">>), Str(UrlGitHub), Undefined,
             Arr(<<Str(<<"css">>), Str(<<" ">>), Num(5), Str(<<"css">>)>>),
             Str(<<" ", "n">>), DateTie)
\* the same id again, with an unknown urlType and no date
ElemA2 == Obj(Str(<<"a">>), Str(<<"U">>), Str(UrlDoc), Str(<<"Bogus">>),
              Undefined, Undefined, DateBad)
\* the id of a seed record
ElemSeed == Obj(Str(<<"repo-zustand">>), Str(<<"S">>), Str(UrlBoard),
                Str(<<"Google Doc">>), Arr(<<>>), Num(5), DateTie2)
\* no id, empty title
ElemNoTitle == Obj(Undefined, Str(<<" ">>), Str(UrlDoc), Null, Undefined,
                   Undefined, Undefined)
\* numbers where strings are expected
ElemNums == Obj(Num(5), Num(5), Str(UrlGitHub), Num(5), Num(5), Num(5), Num(5))
\* no id, padded title
ElemB == Obj(Undefined, Str(<<" ", "B", " ">>), Str(UrlBoard), Undefined,
             Arr(<<Str(<<"ui">>)>>), Str(<<"n", " ">>), Undefined)
ElemBadUrl == Obj(Str(<<"b">>), Str(<<"T">>), Str(UrlBad), Undefined,
                  Undefined, Undefined, Undefined)
ElemNoUrl == Obj(Str(<<"b">>), Str(<<"T">>), Undefined, Undefined,
                 Undefined, Undefined, Undefined)
\* a title that String() cannot convert
ElemOddTitle == Obj(Str(<<"c">>), Unprintable, Str(UrlGitHub), Undefined,
                    Undefined, Undefined, Undefined)

\* what localStorage['til-bookmarks'] may hold when the page is opened
StoredContents ==
    {NoItem, EmptyText, Garbage, Json(ElemA),
     Json(Arr(<<ElemA, ElemA2, ElemSeed>>)),
     Json(Arr(<<ElemNoTitle, Num(5), ElemNums, ElemBadUrl, Null, ElemNoUrl>>)),
     Json(Arr(<<ElemA, ElemOddTitle, ElemSeed>>))}

\* the files the user may pick for an import
ImportFiles ==
    {Json(Arr(<<ElemBadUrl, ElemNoTitle, Num(5), ElemNums>>)),
     Json(Arr(<<ElemA2, ElemB, ElemBadUrl, ElemSeed>>)),
     Json(Arr(<<ElemB, ElemA, ElemA2>>))}

\* what localStorage['til-bookmarks-draft'] may hold when the page is opened
StoredDrafts ==
    {NoItem, Garbage,
     Json(Fields(Undefined, Str(UrlGitHub), Num(5), Undefined))}

\* what the user may type into a form field
FieldInputs ==
    [title |-> {<<" ", "T">>},
     url |-> {<<"github.com", "/">>, UrlBad},
     tags |-> {<<"css", ",", " ", ",", " ", "vite", ",", "css">>},
     note |-> {}]

SearchInputs == {<<"css">>}
TagInputs == {<<"css">>}

----------------------------------------------------------------------------------------------------------------------------------------
(* Specifications *)

NotRun == <<[k |-> "not run"]>>

\* the page is about to be opened: only the two localStorage keys carry
\* anything over from earlier
InitWith(stored, drafts) ==
    /\ mounted = FALSE
    /\ storage \in stored
    /\ draftSlot \in drafts
    /\ userBookmarks = <<>>
    /\ formFields = defaultFormFields
    /\ isFormVisible = FALSE
    /\ filters = [search |-> <<>>, tag |-> <<>>]
    /\ status = idleStatus
    /\ pendingImports = <<>>
    /\ download = NoItem
    /\ statusTimeout = 0
    /\ uuidCount = 0
    /\ clock = 1
    /\ isAutofilling = FALSE
    /\ pendingFetches = <<>>
    /\ viaLoad = NotRun
    /\ viaImport = NotRun
    /\ detected = <<>>

\* the operations that build the User collection
Next ==
    \/ Mount
    \/ \E f \in FieldNames : \E v \in FieldInputs[f] : handleFieldChange(f, v)
    \/ handleSubmit
    \/ \E file \in ImportFiles : ImportStart(file)
    \/ \E i \in 1..MaxPending : ImportComplete(i)

Init == InitWith(StoredContents, {NoItem}) /\ elem = Null

Spec == Init /\ [][Next]_vars

\* Export and re-import: the form is filled from a stored draft, the picked
\* file is a file of ImportFilesForExport or the last download, time passes.
DraftT == Json(Fields(Str(<<"T">>), Str(<<"github.com", "/">>),
                      Str(<<"css", ",", "vite">>), Str(<<>>)))

ImportFilesForExport == {Json(Arr(<<ElemA2, ElemB, ElemBadUrl, ElemSeed>>))}

\* the user picks the file of the last download
ImportStartDownload ==
    /\ download # NoItem
    /\ ImportStart(download)

ExportNext ==
    \/ Mount
    \/ handleSubmit
    \/ \E file \in ImportFilesForExport : ImportStart(file)
    \/ ImportStartDownload
    \/ \E i \in 1..MaxPending : ImportComplete(i)
    \/ handleExport
    \/ Tick

ExportInit == InitWith(StoredContents, {NoItem, DraftT}) /\ elem = Null

ExportSpec == ExportInit /\ [][ExportNext]_vars

\* The handlers of the page that touch the form, the draft, the status, the
\* search filter or the User collection, on few stored contents, files and
\* key strokes.
StoredContentsForApp == {NoItem, Json(Arr(<<ElemA, ElemA2, ElemSeed>>))}

ImportFilesForApp == {Json(Arr(<<ElemB, ElemA, ElemA2>>))}

FieldInputsForApp ==
    [title |-> {<<"T">>}, url |-> {<<"github.com", "/">>}, tags |-> {},
     note |-> {}]

AppNext ==
    \/ Mount
    \/ \E f \in FieldNames : \E v \in FieldInputsForApp[f] :
          handleFieldChange(f, v)
    \/ handleSubmit
    \/ \E file \in ImportFilesForApp : ImportStart(file)
    \/ \E i \in 1..MaxPending : ImportComplete(i)
    \/ ToggleFormClick
    \/ CancelClick
    \/ handleSaveDraft
    \/ handleRestoreDraft
    \/ \E v \in SearchInputs : handleSearchChange(v)
    \/ handleClearFilters
    \/ handleKeyDown
    \/ StatusTimeoutFires

AppInit == InitWith(StoredContentsForApp, StoredDrafts) /\ elem = Null

AppSpec == AppInit /\ [][AppNext]_vars

\* One array element, given once to the load path and once to the import
\* path.  The two calls run at different instants and draw different uuids.
ElemObjects ==
    {Obj(id, title, url, urlType, tags, note, savedAt) :
        id \in {Undefined, Str(<<"a">>), Num(5)},
        title \in {Undefined, Null, Num(5), Str(<<>>), Str(<<" ">>),
                   Str(<<" ", "T", " ">>)},
        url \in {Undefined, Num(5), Str(<<>>), Str(UrlBad), Str(UrlBoard)},
        urlType \in {Undefined, Null, Num(5), Str(<<"Bogus">>),
                     Str(<<"Miro Board">>), Str(<<"Google Doc">>)},
        tags \in {Undefined, Str(<<"css">>),
                  Arr(<<Str(<<"css">>), Str(<<" ">>), Num(5), Str(<<" ", "ui">>)>>)},
        note \in {Undefined, Num(5), Str(<<" ", "n", " ">>)},
        savedAt \in {Undefined, DateBad, DateTie}}

Elems == ElemObjects \cup {Null, Num(5), Str(<<"T">>), Arr(<<>>)}

LoadElement ==
    /\ viaLoad = NotRun
    /\ viaLoad' = loadUserBookmarks(Json(Arr(<<elem>>)), 0, NowStrings[1]).out
    /\ UNCHANGED <<appVars, elem, viaImport, detected>>

ImportElement ==
    /\ viaImport = NotRun
    /\ viaImport' = importEntries(<<elem>>, 1, NowStrings[2]).out
    /\ UNCHANGED <<appVars, elem, viaLoad, detected>>

ElementNext == LoadElement \/ ImportElement

ElementInit ==
    /\ InitWith({NoItem}, {NoItem})
    /\ elem \in Elems

ElementSpec == ElementInit /\ [][ElementNext]_vars

\* Imports of every outcome into an empty and into a filled User collection.
StoredContentsForImport == {NoItem, Json(Arr(<<ElemA, ElemSeed>>))}

ImportFilesForImport ==
    {Garbage, EmptyText, Json(ElemA), Json(Null), Json(Arr(<<>>)),
     Json(Arr(<<ElemBadUrl, ElemNoTitle, Num(5), ElemNums>>)),
     Json(Arr(<<ElemBadUrl, ElemB, Null, ElemA2, ElemNoUrl>>))}

ImportNext ==
    \/ Mount
    \/ \E file \in ImportFilesForImport : ImportStart(file)
    \/ \E i \in 1..MaxPending : ImportComplete(i)
    \/ StatusTimeoutFires

ImportInit == InitWith(StoredContentsForImport, {NoItem}) /\ elem = Null

ImportSpec == ImportInit /\ [][ImportNext]_vars

\* A session in which records are submitted and imported while drafts are
\* saved and restored, the search filter changes and the form is filled
\* from the summarisation script.  The form is first filled from a stored
\* draft.
SessionNext ==
    \/ Mount
    \/ handleSubmit
    \/ \E file \in ImportFilesForApp : ImportStart(file)
    \/ \E i \in 1..MaxPending : ImportComplete(i)
    \/ handleSaveDraft
    \/ handleRestoreDraft
    \/ \E v \in SearchInputs : handleSearchChange(v)
    \/ handleClearFilters
    \/ handleAutofill
    \/ \E data \in FetchResponses : AutofillComplete(1, data)

SessionInit == InitWith(StoredContentsForApp, {DraftT}) /\ elem = Null

SessionSpec == SessionInit /\ [][SessionNext]_vars

\* Operations in flight side by side: file reads that overlap each other,
\* submits and autofill answers.  The form is first filled from a stored draft.
StoredContentsForFlight == {NoItem, Json(Arr(<<ElemA, ElemSeed>>))}

ImportFilesForFlight ==
    {Json(Arr(<<ElemB, ElemA>>)), Json(Arr(<<ElemA2, ElemBadUrl>>))}

InFlightNext ==
    \/ Mount
    \/ handleSubmit
    \/ \E file \in ImportFilesForFlight : ImportStartWithin(file, MaxReads)
    \/ \E i \in 1..MaxReads : ImportComplete(i)
    \/ handleAutofill
    \/ \E data \in FetchResponses : AutofillComplete(1, data)

InFlightInit == InitWith(StoredContentsForFlight, {DraftT}) /\ elem = Null

InFlightSpec == InFlightInit /\ [][InFlightNext]_vars

\* Searching and filtering by tag over loaded and imported records.
SearchInputsForFilter ==
    {<<"css">>, <<" ", "GitHub.com", " ">>, <<" ", " ", " ">>, <<"www.">>,
     <<"state", " ", "react">>, <<"ui", " ", "css">>, <<"T", " ", "n">>,
     <<"miro.com", " ">>}

TagInputsForFilter == {<<"css">>, <<"cs">>}

ImportFilesForFilter == {Json(Arr(<<ElemB, ElemA, ElemA2>>))}

FilterNext ==
    \/ Mount
    \/ \E file \in ImportFilesForFilter : ImportStart(file)
    \/ \E i \in 1..MaxPending : ImportComplete(i)
    \/ \E v \in SearchInputsForFilter : handleSearchChange(v)
    \/ \E v \in TagInputsForFilter : handleTagChange(v)
    \/ handleClearFilters
    \/ handleKeyDown

FilterInit == InitWith(StoredContentsForApp, {NoItem}) /\ elem = Null

FilterSpec == FilterInit /\ [][FilterNext]_vars

\* The classifier alone, called on one string MaxCalls times.
ClassifyInputs ==
    LET hosts == {<<"docs.google.com">>, <<"sub.", "miro.com">>, <<"miro.com">>,
                  <<"github.com">>, <<"www.", "github.com">>,
                  <<"dev", ".service-now.com">>, <<"source.redhat.com">>,
                  <<"w3.org">>, <<"docs", " ", "google.com">>, <<>>}
        paths == {<<>>, <<"/">>, <<"/document/", "/d/abc">>, <<"/spreadsheets/">>,
                  <<"/app/board/">>, <<"/d/abc", "/document/">>}
    IN  {scheme \o host \o path :
            scheme \in {<<"https://">>, <<"http://">>, <<>>},
            host \in hosts, path \in paths}
          \cup {UrlBad, UrlBoard, <<>>}

DetectUrlType ==
    /\ Len(detected) < MaxCalls
    /\ detected' = Append(detected, detectUrlType(elem.s))
    /\ UNCHANGED <<appVars, elem, viaLoad, viaImport>>

ClassifyNext == DetectUrlType

ClassifyInit ==
    /\ InitWith({NoItem}, {NoItem})
    /\ elem \in {Str(u) : u \in ClassifyInputs}

ClassifySpec == ClassifyInit /\ [][ClassifyNext]_vars

\* The handlers that set a status message, and the dismissal timer.  A
\* timer that stays pending runs out: the browser calls its callback.
StatusNext ==
    \/ Mount
    \/ handleSubmit
    \/ handleSaveDraft
    \/ handleRestoreDraft
    \/ handleExport
    \/ CancelClick
    \/ handleAutofill
    \/ \E data \in FetchResponses : AutofillComplete(1, data)
    \/ StatusTimeoutFires

StatusInit == InitWith({NoItem}, {NoItem, Garbage, DraftT}) /\ elem = Null

StatusSpec ==
    StatusInit /\ [][StatusNext]_vars /\ WF_vars(StatusTimeoutFires)

----------------------------------------------------------------------------
(* Properties *)

NoDupIds(bookmarks) ==
    \A i, j \in DOMAIN bookmarks :
        bookmarks[i].id = bookmarks[j].id => i = j

\* the first record of bookmarks with the given id
FirstWithId(bookmarks, id) ==
    bookmarks[CHOOSE i \in DOMAIN bookmarks :
                /\ bookmarks[i].id = id
                /\ \A j \in 1..(i - 1) : bookmarks[j].id # id]

\* the only records of bookmarks with the id of b are b itself
HoldsOnly(bookmarks, b) ==
    /\ b \in Range(bookmarks)
    /\ \A i \in DOMAIN bookmarks : bookmarks[i].id = b.id => bookmarks[i] = b

\* C1: whenever a User record has the id of a Seed record, the combined view
\* holds the Seed record for that id and no other record with that id.
C1_SeedWins ==
    LET c == combinedBookmarks IN
    \A i \in DOMAIN seedBookmarks :
        seedBookmarks[i].id \in Ids(userBookmarks)
            => HoldsOnly(c, seedBookmarks[i])

\* a User record carries a Seed id with other fields than the Seed record
C1_Witness ==
    \E i \in DOMAIN userBookmarks : \E j \in DOMAIN seedBookmarks :
        /\ userBookmarks[i].id = seedBookmarks[j].id
        /\ userBookmarks[i] # seedBookmarks[j]

\* the entries handleImport accepts from the i-th pending file
Accepted(i) ==
    importEntries(JSONparse(pendingImports[i]).a, uuidCount, now).out

\* the i-th pending import completes and merges at least one entry
ImportSucceeds(i) ==
    /\ ImportComplete(i)
    /\ ~ParseThrows(pendingImports[i])
    /\ IsArray(JSONparse(pendingImports[i]))
    /\ Accepted(i) # <<>>

\* C2 (as amended): after a successful import, for every accepted entry whose
\* id was already in the User collection, the User collection holds the
\* fields of the first accepted entry with that id, and no other record with
\* that id.
C2_FirstImportedWins ==
    [][\A i \in DOMAIN pendingImports :
         ImportSucceeds(i) =>
            \A n \in DOMAIN Accepted(i) :
                Accepted(i)[n].id \in Ids(userBookmarks) =>
                    HoldsOnly(userBookmarks',
                              FirstWithId(Accepted(i), Accepted(i)[n].id))]_vars

\* C2 (as claimed): ... the User collection holds the fields of every
\* accepted entry whose id was already in it.
C2_EveryImportedWins ==
    [][\A i \in DOMAIN pendingImports :
         ImportSucceeds(i) =>
            \A n \in DOMAIN Accepted(i) :
                Accepted(i)[n].id \in Ids(userBookmarks) =>
                    HoldsOnly(userBookmarks', Accepted(i)[n])]_vars

\* Three entries were imported over the stored collection that held ids "a"
\* and "repo-zustand": the record with the Seed id still has the urlType
\* only the load path keeps, the record "a" has the note only the import
\* path produces.
C2_Witness ==
    /\ status.message = <<"Imported ", "3", " bookmark(s).">>
    /\ \E i, j \in DOMAIN userBookmarks :
        /\ userBookmarks[i].id = <<"repo-zustand">>
        /\ userBookmarks[i].urlType = Str(<<"Google Doc">>)
        /\ userBookmarks[j].id = <<"a">>
        /\ userBookmarks[j].note = <<"n">>

\* C3: the combined view never holds two records with one id, and for an id
\* of the User collection that is not a Seed id it holds the first User record
\* with that id.
C3_CombinedUnique ==
    LET c == combinedBookmarks IN
    /\ NoDupIds(c)
    /\ \A id \in Ids(userBookmarks) \ Ids(seedBookmarks) :
          HoldsOnly(c, FirstWithId(userBookmarks, id))

\* the User collection holds two different records with one id that is not
\* a Seed id
C3_Witness ==
    \E i, j \in DOMAIN userBookmarks :
        /\ i < j
        /\ userBookmarks[i].id = userBookmarks[j].id
        /\ userBookmarks[i] # userBookmarks[j]
        /\ userBookmarks[i].id \notin Ids(seedBookmarks)

\* the ids of the array stored under 'til-bookmarks' are pairwise different
StoredIdsUnique ==
    (storage.k = "json" /\ IsArray(storage.j)) =>
        \A i, j \in DOMAIN storage.j.a :
            Get(storage.j.a[i], "id") = Get(storage.j.a[j], "id") => i = j

\* C4: once the page is open, neither the User collection nor the array
\* stored under 'til-bookmarks' holds two records with one id.
C4_UserIdsUnique ==
    mounted => NoDupIds(userBookmarks) /\ StoredIdsUnique

WellFormed(b) ==
    /\ b.title # <<>>
    /\ IsURL(b.url)
    /\ IsDate(b.savedAt)
    /\ \A i \in DOMAIN b.tags : trim(b.tags[i]) # <<>>

\* C7: every record of the User collection has a non-empty title, a url that
\* parses, a savedAt that is a date and no empty or blank tag.
C7_WellFormed ==
    \A i \in DOMAIN userBookmarks : WellFormed(userBookmarks[i])

\* the User collection holds a record the load path gave a title and a date
\* to, and a submitted record whose tags were split and trimmed
C7_Witness ==
    \E i, j \in DOMAIN userBookmarks :
        /\ userBookmarks[i].title = <<"Untitled">>
        /\ userBookmarks[i].savedAt \in Range(NowStrings)
        /\ userBookmarks[j].tags = << <<"css">>, <<"vite">>, <<"css">> >>

\* C8: every record of the User collection has a urlType of the enumeration.
C8_UrlTypeInEnum ==
    \A i \in DOMAIN userBookmarks :
        /\ IsString(userBookmarks[i].urlType)
        /\ Len(userBookmarks[i].urlType.s) = 1
        /\ userBookmarks[i].urlType.s[1] \in UrlTypes


\* C5: when handleExport hands out a file, importing that file into an empty
\* User collection gives a collection with exactly the ids of the exported
\* User collection.
C5_RoundTrip ==
    [][download' # download =>
         /\ ~ParseThrows(download')
         /\ IsArray(JSONparse(download'))
         /\ Ids(importMerge(
                  importEntries(JSONparse(download').a, uuidCount, now).out,
                  <<>>))
              = Ids(userBookmarks)]_vars

\* the last download is the export of the current User collection, which
\* holds a record with a generated id next to records with ids from a file
C5_Witness ==
    /\ download = JSONstringify(userBookmarks)
    /\ \E i, j \in DOMAIN userBookmarks :
        /\ userBookmarks[i].id \in {<<Uuids[n]>> : n \in DOMAIN Uuids}
        /\ userBookmarks[j].id = <<"a">>

\* C6: once the page is open, the text stored under 'til-bookmarks' is the
\* serialisation of the current User collection, and a step that leaves the
\* User collection as it is leaves the stored text as it is.
C6_Persisted ==
    /\ [](mounted => storage = JSONstringify(userBookmarks))
    /\ [][(mounted /\ userBookmarks' = userBookmarks) => storage' = storage]_vars

\* a submitted record and imported records are in the User collection, the
\* form is open again and a draft is stored
C6_Witness ==
    /\ mounted
    /\ isFormVisible
    /\ draftSlot # NoItem
    /\ storage = JSONstringify(userBookmarks)
    /\ \E i, j \in DOMAIN userBookmarks :
        /\ userBookmarks[i].id = <<"uuid-1">>
        /\ userBookmarks[i].title = <<"T">>
        /\ userBookmarks[j].id = <<"a">>

\* both normalisations have run on elem and the import path kept it
BothRan == viaLoad # NotRun /\ viaImport # NotRun

\* elem carries a urlType
CarriesUrlType == Get(elem, "urlType").k \notin {"undefined", "null"}

C10_ImportRefinesLoad ==
    (BothRan /\ viaImport # <<>>) =>
        /\ viaLoad # <<>>
        /\ viaLoad[1].title = viaImport[1].title
        /\ viaLoad[1].url = viaImport[1].url
        /\ viaLoad[1].tags = viaImport[1].tags
        /\ trim(viaLoad[1].note) = viaImport[1].note
        /\ IsString(Get(elem, "id")) => viaLoad[1].id = viaImport[1].id
        /\ ~CarriesUrlType => viaLoad[1].urlType = viaImport[1].urlType
        /\ (IsString(Get(elem, "savedAt")) /\ IsDate(Get(elem, "savedAt").s))
              => viaLoad[1].savedAt = viaImport[1].savedAt

\* C10 (as claimed): both paths make the same keep-or-drop decision and, when
\* they keep the element, produce the same title, url, urlType, tags, note
\* and id.
C10_SameRule ==
    BothRan =>
        /\ (viaLoad = <<>>) <=> (viaImport = <<>>)
        /\ viaLoad # <<>> =>
              /\ viaLoad[1].title = viaImport[1].title
              /\ viaLoad[1].url = viaImport[1].url
              /\ viaLoad[1].urlType = viaImport[1].urlType
              /\ viaLoad[1].tags = viaImport[1].tags
              /\ viaLoad[1].note = viaImport[1].note
              /\ viaLoad[1].id = viaImport[1].id

\* both paths kept an element whose title, url and tags they had to
\* normalise
C10_Witness ==
    /\ BothRan /\ viaImport # <<>> /\ viaLoad # <<>>
    /\ Get(elem, "title") = Str(<<" ", "T", " ">>)
    /\ viaImport[1].title = <<"T">>
    /\ viaImport[1].url = <<"https://", "sub.", "miro.com", "/app/board/">>
    /\ viaImport[1].tags = << <<"css">>, <<" ", "ui">> >>

\* the i-th pending import completes on a text that does not parse or does
\* not parse to an array
StructuralReject(i) ==
    /\ ImportComplete(i)
    /\ \/ ParseThrows(pendingImports[i])
       \/ ~IsArray(JSONparse(pendingImports[i]))

\* C11: an import whose text does not parse, or parses to something that is
\* not an array, ends with an error status and changes neither the User
\* collection nor the text stored under 'til-bookmarks'; no uuid is drawn.
C11_StructuralRejection ==
    [][\A i \in DOMAIN pendingImports :
         StructuralReject(i) =>
            /\ status'.tone = "error"
            /\ status'.message # <<>>
            /\ statusTimeout' # 0
            /\ userBookmarks' = userBookmarks
            /\ storage' = storage
            /\ uuidCount' = uuidCount]_vars

\* an object was imported into a filled User collection and rejected
C11_Witness ==
    /\ status = [message |-> <<"Import failed: expected an array of bookmarks.">>,
                 tone |-> "error"]
    /\ pendingImports = <<>>
    /\ userBookmarks # <<>>
    /\ storage = JSONstringify(userBookmarks)

\* the messages of the two structural rejections
StructuralMessages ==
    {<<"Import failed. Ensure the JSON is valid.">>,
     <<"Import failed: expected an array of bookmarks.">>}

\* the i-th pending import completes on an array
ArrayImport(i) ==
    /\ ImportComplete(i)
    /\ ~ParseThrows(pendingImports[i])
    /\ IsArray(JSONparse(pendingImports[i]))

\* the positions of the array of the i-th pending import whose element
\* passes validation
ValidAt(i) ==
    {n \in DOMAIN JSONparse(pendingImports[i]).a :
        importKeeps(JSONparse(pendingImports[i]).a[n])}

\* the uuids drawn by the step
DrawnUuids == {randomUUID(n) : n \in (uuidCount + 1)..uuidCount'}

\* C12: an import of an array without a valid element ends with a message
\* that is neither of the structural rejection messages and leaves the User
\* collection as it is; an import of an array with valid elements reports
\* their number, and the ids it adds to the User collection are those of
\* the valid elements (one fresh uuid for each valid element without id),
\* whatever invalid elements stand before, between or after them.
C12_ElementwiseValidation ==
    [][\A i \in DOMAIN pendingImports :
         /\ StructuralReject(i) => status'.message \in StructuralMessages
         /\ ArrayImport(i) =>
              LET entries == JSONparse(pendingImports[i]).a
                  withId == {n \in ValidAt(i) : IsString(Get(entries[n], "id"))}
              IN  IF ValidAt(i) = {}
                  THEN /\ status'.message # <<>>
                       /\ status'.message \notin StructuralMessages
                       /\ userBookmarks' = userBookmarks
                       /\ storage' = storage
                  ELSE /\ status' =
                            [message |-> <<"Imported ",
                                           Digits[Cardinality(ValidAt(i)) + 1],
                                           " bookmark(s).">>,
                             tone |-> "success"]
                       /\ Cardinality(DrawnUuids)
                            = Cardinality(ValidAt(i) \ withId)
                       /\ Ids(userBookmarks')
                            = Ids(userBookmarks) \cup DrawnUuids
                                \cup {Get(entries[n], "id").s : n \in withId}]_vars

\* of the five elements of a file the two valid ones were imported: the
\* User collection holds the one with id "a" and the one that got a uuid,
\* and no record with id "b"
C12_Witness ==
    /\ status.message = <<"Imported ", "2", " bookmark(s).">>
    /\ <<"a">> \in Ids(userBookmarks)
    /\ <<"b">> \notin Ids(userBookmarks)
    /\ \E i \in DOMAIN userBookmarks :
          /\ userBookmarks[i].id = <<"uuid-1">>
          /\ userBookmarks[i].title = <<"B">>

\* loadUserBookmarks keeps the element when it is the only one of the array
KeptAlone(item) == loadUserBookmarks(Json(Arr(<<item>>)), 0, now).out # <<>>

\* C13: when the page is opened on an absent key, on text that is not JSON
\* or on JSON that is not an array, the User collection is empty and no
\* status is shown; on an array, the elements kept are those that are kept
\* when they stand alone, whatever the other elements are.
C13_LoadTolerant ==
    [][Mount =>
         IF \/ IsFalsyText(storage)
            \/ ParseThrows(storage)
            \/ ~IsArray(JSONparse(storage))
         THEN /\ userBookmarks' = <<>>
              /\ draftSlot = NoItem => status' = idleStatus
         ELSE /\ Len(userBookmarks')
                   = Cardinality({n \in DOMAIN JSONparse(storage).a :
                                    KeptAlone(JSONparse(storage).a[n])})
              /\ draftSlot = NoItem => status' = idleStatus]_vars

\* seed ++ (User records whose id is not a Seed id)
SortInput ==
    seedBookmarks
      \o SeqFilter(userBookmarks,
                   {b \in Range(userBookmarks) : b.id \notin Ids(seedBookmarks)})

\* the position of the first record with the given id
IndexOfId(bookmarks, id) ==
    CHOOSE k \in DOMAIN bookmarks :
        /\ bookmarks[k].id = id
        /\ \A m \in 1..(k - 1) : bookmarks[m].id # id

\* C14: the combined view is in descending order of savedAt, and two of its
\* records with the same instant stand in the order they have in
\* seed ++ (User records whose id is not a Seed id).
C14_SortedStable ==
    LET c == combinedBookmarks
        input == SortInput
        at == [i \in DOMAIN c |-> getTime(c[i].savedAt)]
        pos == [i \in DOMAIN c |-> IndexOfId(input, c[i].id)]
    IN  \A i, j \in DOMAIN c :
            i < j => at[i] >= at[j] /\ (at[i] = at[j] => pos[i] < pos[j])

\* the combined view holds a Seed record and a User record of the same
\* instant, and two User records of one other instant
C14_Witness ==
    LET c == combinedBookmarks IN
    \E i, j, k, l \in DOMAIN c :
        /\ i < j /\ k < l
        /\ c[i].id = <<"til-vite-aliases">>
        /\ c[j].id = <<"a">>
        /\ getTime(c[i].savedAt) = getTime(c[j].savedAt)
        /\ c[k].id \notin Ids(seedBookmarks)
        /\ c[l].id \notin Ids(seedBookmarks)
        /\ c[k].savedAt = c[l].savedAt
        /\ c[k].savedAt \in Range(NowStrings)

\* the Seed records in descending order of savedAt
SeedsByDate ==
    <<seedBookmarks[4], seedBookmarks[2], seedBookmarks[1], seedBookmarks[5],
      seedBookmarks[3]>>

\* C15: the combined view holds every Seed record, for every id of the
\* User collection that is not a Seed id the first User record with that id,
\* and no other record; for an empty User collection it is the Seed records
\* in descending order of savedAt; computing it leaves seedBookmarks as it is.
C15_CombinedExact ==
    LET arrays == combinedArrays(userBookmarks)
        c == combinedBookmarks
        userIds == Ids(userBookmarks) \ Ids(seedBookmarks)
    IN  /\ arrays.seedBookmarks = seedBookmarks
        /\ arrays.merged = c
        /\ Range(c) = Range(seedBookmarks)
                        \cup {FirstWithId(userBookmarks, id) : id \in userIds}
        /\ Len(c) = Len(seedBookmarks) + Cardinality(userIds)
        /\ userBookmarks = <<>> => c = SeedsByDate

\* the User collection holds three records, two of them with one id and
\* one with a Seed id, and the combined view has six records
C15_Witness ==
    /\ Len(userBookmarks) = 3
    /\ Cardinality(Ids(userBookmarks)) = 2
    /\ Ids(userBookmarks) \cap Ids(seedBookmarks) # {}
    /\ Len(combinedBookmarks) = 6

\* the stored draft is text that JSON.parse accepts
DraftParses == ~IsFalsyText(draftSlot) /\ ~ParseThrows(draftSlot)

\* C16: when the mount effect or the restore-draft action reads a stored
\* draft that parses, every form field whose stored value is a string takes
\* that value and every other form field keeps the value it had.
C16_FieldwiseOverlay ==
    [][((Mount \/ handleRestoreDraft) /\ DraftParses) =>
         \A f \in FieldNames :
            Get(formFields', f)
              = IF IsString(Get(JSONparse(draftSlot), f))
                THEN Get(JSONparse(draftSlot), f)
                ELSE Get(formFields, f)]_vars

\* C17: a submit that adds a record leaves no stored draft; a submit that
\* adds none leaves the stored draft as it is; save-draft stores the
\* serialisation of the current form fields, whatever was stored before.
C17_DraftSlot ==
    [][/\ (handleSubmit /\ userBookmarks' # userBookmarks)
            => draftSlot' = NoItem
       /\ (handleSubmit /\ userBookmarks' = userBookmarks)
            => draftSlot' = draftSlot /\ status'.tone = "error"
       /\ handleSaveDraft
            => draftSlot' = Json(formFields) /\ formFields' = formFields]_vars

\* a record was submitted, which removed the draft, and a draft with a
\* title typed later is stored again
C17_Witness ==
    /\ <<"uuid-1">> \in Ids(userBookmarks)
    /\ draftSlot = Json(formFields)
    /\ Get(formFields, "title") = Str(<<"T">>)
    /\ status.message = <<"Draft saved locally.">>

\* the url handleSubmit validates: the trimmed url field, with https:// put
\* in front unless it starts with http:// or https://
SubmittedUrl ==
    LET url0 == trim(formFields.url.s) IN
    IF url0 # <<>> /\ Head(url0) \in SchemeTokens THEN url0
    ELSE <<"https://">> \o url0

\* C18: a submit with a blank title, a blank url or a url that does not
\* parse shows an error and leaves the User collection, the stored collection
\* and the form fields as they are; every other submit puts one record in
\* front of the User collection, with the trimmed title, the validated url
\* and an id no User or Seed record has, and leaves the other records alone.
C18_Submit ==
    [][handleSubmit =>
         IF \/ trim(formFields.title.s) = <<>>
            \/ trim(formFields.url.s) = <<>>
            \/ ~IsURL(SubmittedUrl)
         THEN /\ status'.tone = "error"
              /\ status'.message # <<>>
              /\ userBookmarks' = userBookmarks
              /\ storage' = storage
              /\ formFields' = formFields
         ELSE /\ Len(userBookmarks') = Len(userBookmarks) + 1
              /\ Tail(userBookmarks') = userBookmarks
              /\ Head(userBookmarks').id
                   \notin Ids(userBookmarks) \cup Ids(seedBookmarks)
              /\ Head(userBookmarks').title = trim(formFields.title.s)
              /\ Head(userBookmarks').url = SubmittedUrl
              /\ storage' = JSONstringify(userBookmarks')]_vars

\* the form was rejected for its url after two records had been submitted
\* on top of a loaded one
C18_Witness ==
    /\ status.message
         = <<"That URL looks invalid. Double-check and try again.">>
    /\ Len(userBookmarks) = 3
    /\ userBookmarks[1].id = <<"uuid-2">>
    /\ userBookmarks[2].id = <<"uuid-1">>
    /\ userBookmarks[1].url = <<"https://", "github.com", "/">>

\* the stored draft is text that JSON.parse rejects
DraftCorrupt == ~IsFalsyText(draftSlot) /\ ParseThrows(draftSlot)

\* C19 (as amended): when the restore-draft action reads a stored draft that
\* does not parse, it shows an error message and leaves the form fields as
\* they are; when the mount effect reads one, it leaves the form fields and
\* the status as they are.
C19_CorruptDraft ==
    [][/\ (handleRestoreDraft /\ DraftCorrupt)
            => /\ status' = [message |-> <<"Draft was corrupted; please save again.">>,
                             tone |-> "error"]
               /\ statusTimeout' # 0
               /\ formFields' = formFields
       /\ (Mount /\ DraftCorrupt)
            => /\ status' = status
               /\ formFields' = formFields]_vars

\* C19 (as claimed): whenever a stored draft that does not parse is read, at
\* startup or by the restore-draft action, an error message is shown and
\* the form fields are left as they are.
C19_CorruptDraftReported ==
    [][((Mount \/ handleRestoreDraft) /\ DraftCorrupt)
         => /\ status'.tone = "error"
            /\ status'.message # <<>>
            /\ formFields' = formFields]_vars

\* the restore-draft action has reported the corrupt draft, with a title
\* typed in the form
C19_Witness ==
    /\ DraftCorrupt
    /\ status.message = <<"Draft was corrupted; please save again.">>
    /\ Get(formFields, "title") = Str(<<"T">>)

\* the ids of the array stored under 'til-bookmarks'
StoredIds ==
    IF storage.k = "json" /\ IsArray(storage.j)
    THEN {Get(storage.j.a[i], "id") : i \in DOMAIN storage.j.a}
    ELSE {}

\* C20: once the page is open, every step keeps every id of the User
\* collection in the User collection and in the array stored under
\* 'til-bookmarks'.
C20_IdsStay ==
    /\ [][mounted => Ids(userBookmarks) \subseteq Ids(userBookmarks')]_vars
    /\ [](mounted => \A id \in Ids(userBookmarks) : Str(id) \in StoredIds)

\* the loaded record "a" was replaced by the imported record with that id,
\* a record was imported next to it, the form was filled by the script and
\* saved as a draft
C20_Witness ==
    /\ \E i \in DOMAIN userBookmarks :
          /\ userBookmarks[i].id = <<"a">>
          /\ userBookmarks[i].note = <<"n">>
    /\ <<"repo-zustand">> \in Ids(userBookmarks)
    /\ Get(formFields, "note") = Str(<<"\"", "S", "\"">>)
    /\ draftSlot = Json(formFields)
    /\ filters.search # <<>>

----------------------------------------------------------------------------
\* C21: at no time are two autofill operations pending at once, and at no
\* time are two import operations pending at once; an in-flight flag stops
\* the second start and is cleared whenever the pending operation ends.
C21_OneInFlight ==
    /\ Len(pendingFetches) <= 1
    /\ Len(pendingImports) <= 1

\* the part of C21 that is about autofill: the flag is set exactly while a
\* fetch is pending, and one fetch at most is
C21_AutofillFlag ==
    /\ Len(pendingFetches) <= 1
    /\ isAutofilling <=> pendingFetches # <<>>

----------------------------------------------------------------------------
\* the text the claim searches in: title, note, the tags joined by spaces
\* and the hostname without a leading 'www.', each separated by one space
SearchedText(b) ==
    LET host == Flat(hostname(b.url))
        tagsText == join([i \in DOMAIN b.tags |-> Flat(b.tags[i])], " ")
    IN  Flat(b.title) \o " " \o Flat(b.note) \o " " \o tagsText \o " "
          \o (IF Len(host) >= 4 /\ SubSeq(host, 1, 4) = "www."
              THEN SubSeq(host, 5, Len(host)) ELSE host)

\* the records of the combined view, in its order, that carry `tag` (when it
\* is not empty) and whose searched text contains `search` (when it is not
\* empty), letter case aside
Selected(search, tag) ==
    LET Match(b) ==
          /\ tag = "" \/ tag \in {Flat(b.tags[i]) : i \in DOMAIN b.tags}
          /\ \/ search = ""
             \/ includes(toLowerCase(SearchedText(b)), toLowerCase(search))
    IN  SelectSeq(combinedBookmarks, Match)

\* C22 as stated: the filtered view is the subsequence of the combined view
\* of exactly the records that match the tag and contain the search text as
\* given, case-insensitively.
C22_FilterAsGiven ==
    mounted => filteredBookmarks = Selected(Flat(filters.search), Flat(filters.tag))

\* C22: the same with the search text trimmed of surrounding whitespace
\* first; a search of whitespace only is an empty search.
C22_FilterTrimmed ==
    mounted =>
        filteredBookmarks = Selected(Flat(trim(filters.search)), Flat(filters.tag))

\* a search with surrounding whitespace selects some but not all records,
\* a User record among them
C22_Witness ==
    /\ mounted
    /\ filters.search # trim(filters.search)
    /\ trim(filters.search) # <<>>
    /\ filteredBookmarks # <<>>
    /\ Len(filteredBookmarks) < Len(combinedBookmarks)
    /\ \E i \in DOMAIN filteredBookmarks :
          filteredBookmarks[i].id \notin Ids(seedBookmarks)

----------------------------------------------------------------------------
\* the string given to the classifier parses, with this hostname and a path
\* that begins with this prefix
ParsesAs(host, prefix) ==
    /\ IsURL(elem.s)
    /\ hostname(elem.s) = host
    /\ startsWith(pathname(elem.s), prefix)

\* C23: classify returns the category of the first rule, in table order,
\* whose predicate holds for the parsed URL, and 'Generic' when the string does
\* not parse or no rule holds; docs.google.com under /document/ is
\* 'Google Doc', under /spreadsheets/ 'Google Sheet', a miro.com subdomain
\* under /app/board/ 'Miro Board', 'not a url' 'Generic'; the same input
\* always gives the same result.
C23_FirstRuleWins ==
    \A n \in DOMAIN detected :
        LET r == detected[n] IN
        /\ r \in UrlTypes
        /\ IF IsURL(elem.s) /\ \E i \in DOMAIN rules : RuleMatches(i, elem.s)
           THEN \E i \in DOMAIN rules :
                   /\ RuleMatches(i, elem.s)
                   /\ \A j \in 1..(i - 1) : ~RuleMatches(j, elem.s)
                   /\ r = rules[i]
           ELSE r = "Generic"
        /\ ParsesAs(<<"docs.google.com">>, <<"/document/">>) => r = "Google Doc"
        /\ ParsesAs(<<"docs.google.com">>, <<"/spreadsheets/">>)
              => r = "Google Sheet"
        /\ ParsesAs(<<"sub.", "miro.com">>, <<"/app/board/">>) => r = "Miro Board"
        /\ elem.s = UrlBad => r = "Generic"
        /\ r = detected[1]

\* the classifier was called twice on a Google Sheets URL
C23_Witness ==
    /\ Len(detected) = 2
    /\ ParsesAs(<<"docs.google.com">>, <<"/spreadsheets/">>)
    /\ detected[2] = "Google Sheet"

----------------------------------------------------------------------------
\* a message that is to dismiss itself is shown
Dismissable == status.message # <<>> /\ status.tone \in {"success", "error"}

\* a timer is pending only for the message shown, with the delay of its tone
TimerIsCurrent ==
    statusTimeout # 0 =>
        /\ Dismissable
        /\ statusTimeout = (IF status.tone = "error" THEN 4000 ELSE 2500)

\* C24: every non-empty status message with tone success or error is
\* eventually cleared back to the empty idle status if no further status is
\* set, and the dismissal timer of an older message never clears a message
\* that was set after it.
C24_AutoDismiss ==
    /\ []TimerIsCurrent
    /\ [][StatusTimeoutFires => status' = idleStatus]_vars
    /\ <>[][status' = status \/ StatusTimeoutFires]_vars => <>[]~Dismissable

\* an error message was set after 'Fetching details...', while the fetch is
\* still pending, and its timer is pending
C24_Witness ==
    /\ Dismissable
    /\ status.tone = "error"
    /\ statusTimeout = 4000
    /\ isAutofilling

----------------------------------------------------------------------------
\* a handleSubmit step that passes its validations and adds the record
SubmitSucceeds == handleSubmit /\ userBookmarks' # userBookmarks

\* C25: after a successful submit the status is the success message
\* 'Bookmark saved!', and its dismissal timer is pending; closing the form as
\* part of the submit does not erase it.
C25_SavedShown ==
    [][SubmitSucceeds =>
          /\ status' = [message |-> <<"Bookmark saved!">>, tone |-> "success"]
          /\ statusTimeout' = 2500]_vars

----------------------------------------------------------------------------
\* C26: no update to the User collection is lost across the asynchronous
\* import.  When an import completes, whatever the collection holds by then
\* (the records submitted or imported while the file read was pending among
\* them) is still in it, a record being identified by its id: a record whose
\* id no accepted entry carries stays as it is, every other id stays; every
\* accepted entry is in it (the first one of each id); and the persisted
\* array is the serialisation of the new collection.
C26_NoLostUpdate ==
    [][\A i \in DOMAIN pendingImports :
         ImportSucceeds(i) =>
            LET accepted == Accepted(i)
                after == userBookmarks'
            IN  /\ \A n \in DOMAIN userBookmarks :
                      LET r == userBookmarks[n] IN
                      IF r.id \in Ids(accepted)
                      THEN r.id \in Ids(after)
                      ELSE r \in Range(after)
                /\ \A n \in DOMAIN accepted :
                      FirstWithId(accepted, accepted[n].id) \in Range(after)
                /\ storage' = JSONstringify(after)]_vars

\* both files have been imported and a record has been submitted: the
\* collection holds the submitted record, the record of ElemB and the record
\* of ElemA2, and the persisted array matches
C26_Witness ==
    /\ pendingImports = <<>>
    /\ storage = JSONstringify(userBookmarks)
    /\ \E n \in DOMAIN userBookmarks :
          /\ userBookmarks[n].id \in GeneratedIds
          /\ userBookmarks[n].tags = << <<"css">>, <<"vite">> >>
    /\ \E n \in DOMAIN userBookmarks : userBookmarks[n].title = <<"B">>
    /\ \E n \in DOMAIN userBookmarks :
          /\ userBookmarks[n].id = <<"a">>
          /\ userBookmarks[n].title = <<"U">>

====
